---- MODULE Spec2Model ----
(***************************************************************************)
(* skim: the playback engine of the RSVP speed reader (src/main.go).       *)
(*                                                                         *)
(* The Bubble Tea program is a state machine: `model` is the state,        *)
(* model.Update(msg) is the transition for one message, tea.Tick commands  *)
(* returned by Init/Update are the timers in flight.  Every action below   *)
(* is one call of Update for one kind of message.                          *)
(*                                                                         *)
(* Text is modelled as sequences of Unicode codepoints (naturals); a word  *)
(* is a non-empty sequence of non-space codepoints.                        *)
(***************************************************************************)
EXTENDS Integers, Sequences, FiniteSets, Bags, TLC

(***************************************************************************)
(* Bounds of the exploration (not program constants).                      *)
(***************************************************************************)
\* most tea.Tick timers in flight at once (PlayPause may add one per press)
MaxTicks == 2
\* most Faster/Slower commands in one run
MaxSpeedCmds == 2

(***************************************************************************)
(* Program constants.                                                      *)
(***************************************************************************)
MinWpm == 50
MaxWpm == 1000
SpeedStep == 25
JumpSize == 10
DefaultFocusCol == 40
SniffLen == 8192
HalfWidth == 30
MaxWordRunes == 32
KeptRunes == 31
ScanMargin == 20

(***************************************************************************)
(* The environment: the -wpm flag values tried, the terminal sizes         *)
(* reported, and the files the picker can return.                          *)
(***************************************************************************)
WpmFlags == {20, 990, 1010}

TermSizes == {<<80, 24>>}

\* "a b c ... k": eleven one-letter words, so that +10 from index 0 fits
LongText ==
  <<97, 32, 98, 32, 99, 32, 100, 32, 101, 32, 102, 32, 103, 32, 104, 32,
    105, 32, 106, 32, 107, 10>>

\* os.ReadFile: err = TRUE is a read failure, otherwise the content
FileSystem ==
  [ p \in {"missing.txt", "binary.txt", "blank.txt", "two.txt", "long.txt"} |->
      CASE p = "missing.txt" -> [err |-> TRUE,  content |-> <<>>]
        [] p = "binary.txt"  -> [err |-> FALSE, content |-> <<104, 105, 0, 33>>]
        [] p = "blank.txt"   -> [err |-> FALSE, content |-> <<32, 10, 9, 32>>]
        [] p = "two.txt"     -> [err |-> FALSE, content |-> <<104, 105, 32, 32, 233, 10>>]
        [] p = "long.txt"    -> [err |-> FALSE, content |-> LongText] ]

Paths == DOMAIN FileSystem

\* terminal sizes for the rendering checks: focus columns 20, 29, 30 and 50
ViewSizes == {<<40, 20>>, <<59, 24>>, <<60, 24>>, <<100, 30>>}

\* a word of n copies of the codepoint c
Rep(c, n) == [k \in 1..n |-> c]

RECURSIVE Join(_)
\* the words of a text, separated by single spaces
Join(ws) ==
  IF ws = <<>> THEN <<>>
  ELSE IF Len(ws) = 1 THEN ws[1]
  ELSE ws[1] \o <<32>> \o Join(Tail(ws))

\* documents for the rendering checks: ASCII words of every ORP class and
\* around the truncation limit; many short ASCII words; and a one-letter
\* word followed by words of three-byte characters
ViewTexts ==
  { Join([k \in 1..12 |-> Rep(120, <<1, 2, 5, 6, 9, 10, 13, 14, 32, 33, 34, 40>>[k])]),
    Join([k \in 1..30 |-> Rep(97 + (k % 3), 1 + (k % 2))]),
    Join(<<Rep(97, 1)>> \o [k \in 1..7 |-> Rep(26085, 4)]) }

(***************************************************************************)
(* Pure functions of main.go.                                              *)
(***************************************************************************)
Min(a, b) == IF a < b THEN a ELSE b

Max(a, b) == IF a > b THEN a ELSE b

\* unicode.IsSpace, the delimiter class of strings.Fields
IsSpace(c) ==
  \/ c \in {9, 10, 11, 12, 13, 32, 133, 160, 5760, 8232, 8233, 8239, 8287, 12288}
  \/ (c >= 8192 /\ c <= 8202)

\* bytes of the UTF-8 encoding of one codepoint
Utf8Len(c) == IF c < 128 THEN 1 ELSE IF c < 2048 THEN 2 ELSE IF c < 65536 THEN 3 ELSE 4

\* len(s) of a Go string: its length in bytes, the sum of Utf8Len over its
\* codepoints (counted per encoding length, to keep the evaluation flat)
ByteLen(s) ==
  Cardinality({k \in 1..Len(s) : Utf8Len(s[k]) >= 1})
    + Cardinality({k \in 1..Len(s) : Utf8Len(s[k]) >= 2})
    + Cardinality({k \in 1..Len(s) : Utf8Len(s[k]) >= 3})
    + Cardinality({k \in 1..Len(s) : Utf8Len(s[k]) >= 4})

\* where a field of strings.Fields starts: a non-space at the start of the
\* text or after a space
FieldStarts(text) ==
  {i \in 1..Len(text) : ~IsSpace(text[i]) /\ (i = 1 \/ IsSpace(text[i - 1]))}

\* where the field starting at i ends: before the next space or at the end
FieldEnd(text, i) ==
  CHOOSE j \in i..Len(text) :
    /\ \A k \in i..j : ~IsSpace(text[k])
    /\ j = Len(text) \/ IsSpace(text[j + 1])

\* strings.Fields: the maximal runs of non-space codepoints, in order
Fields(text) ==
  LET st == FieldStarts(text)
      nth(k) == CHOOSE i \in st : Cardinality({j \in st : j < i}) = k - 1
  IN  [k \in 1..Cardinality(st) |-> SubSeq(text, nth(k), FieldEnd(text, nth(k)))]

\* tokenize: the fields of the text that are not empty
tokenize(text) == SelectSeq(Fields(text), LAMBDA f : f # <<>>)

\* isBinaryFile: a NUL among the first min(8192, len) bytes
isBinaryFile(content) ==
  \E i \in 1..Len(content) :
     /\ content[i] = 0
     /\ ByteLen(SubSeq(content, 1, i - 1)) < Min(SniffLen, ByteLen(content))

\* time.Minute / time.Duration(wpm), in nanoseconds.  60 * 10^9 does not fit
\* the 32-bit integers of TLC, so the quotient is taken in two parts:
\* (60000 * 10^6) \div w = (60000 \div w) * 10^6 + ((60000 % w) * 10^6) \div w
Interval(w) == (60000 \div w) * 1000000 + ((60000 % w) * 1000000) \div w

\* tickCmd(wpm): one tea.Tick timer of that interval
tickCmd(w) == SetToBag({Interval(w)})

\* main: the -wpm flag clamped into [50, 1000]
ClampFlag(f) == IF f < MinWpm THEN MinWpm ELSE IF f > MaxWpm THEN MaxWpm ELSE f

(***************************************************************************)
(* The word line of View (main.go 492-554).  Strings are sequences of      *)
(* codepoints; idx is the 0-based m.currentIdx, so the current word is     *)
(* ws[idx + 1].                                                            *)
(***************************************************************************)
\* strings.Repeat(" ", n)
Spaces(n) == [k \in 1..n |-> 32]

\* faulty calculateORP: the case for one-letter words is missing
calculateORPNoSingle(word) ==
  LET length == Len(word)
  IN  IF length <= 5 THEN 1
      ELSE IF length <= 9 THEN 2
      ELSE IF length <= 13 THEN 3
      ELSE 4

\* calculateORP: the highlight offset from the codepoint count
calculateORP(word) ==
  LET length == Len(word)
  IN  IF length <= 1 THEN 0
      ELSE IF length <= 5 THEN 1
      ELSE IF length <= 9 THEN 2
      ELSE IF length <= 13 THEN 3
      ELSE 4

\* truncateWord: words over 32 codepoints become 31 codepoints and "..."
truncateWord(word) ==
  IF Len(word) <= MaxWordRunes THEN word
  ELSE SubSeq(word, 1, KeptRunes) \o <<46, 46, 46>>

RECURSIVE beforeStr(_, _)
\* the loop of main.go 512-515: every word before idx, each followed by a space
beforeStr(ws, idx) ==
  IF idx <= 0 THEN <<>>
  ELSE beforeStr(ws, idx - 1) \o ws[idx] \o <<32>>

RECURSIVE afterScan(_, _, _, _)
\* the loop of main.go 537-539: i is the 0-based loop index, acc the builder;
\* it stops when the builder holds limit BYTES or more
afterScan(ws, i, acc, limit) ==
  IF i < Len(ws) /\ ByteLen(acc) < limit
    THEN afterScan(ws, i + 1, acc \o <<32>> \o ws[i + 1], limit)
    ELSE acc

\* beforeSectionWidth (main.go 505-510)
beforeSectionWidth(ws, idx) ==
  Max(0, HalfWidth - calculateORP(truncateWord(ws[idx + 1])))

\* afterSectionWidth (main.go 505-508, 535): wordLen is the length of the
\* word as loaded, not of its truncated form
afterSectionWidth(ws, idx) ==
  LET wordLen == Len(ws[idx + 1])
      orpIdx == calculateORP(truncateWord(ws[idx + 1]))
  IN  Max(0, HalfWidth - (wordLen - orpIdx))

\* contextBefore (main.go 516-522)
contextBefore(ws, idx) ==
  LET w == beforeSectionWidth(ws, idx)
      beforeRunes == beforeStr(ws, idx)
  IN  IF Len(beforeRunes) > w
        THEN SubSeq(beforeRunes, Len(beforeRunes) - w + 1, Len(beforeRunes))
        ELSE IF w > 0 THEN Spaces(w - Len(beforeRunes)) \o beforeRunes
        ELSE <<>>

\* contextAfter (main.go 536-547)
contextAfter(ws, idx) ==
  LET w == afterSectionWidth(ws, idx)
      afterRunes == afterScan(ws, idx + 1, <<>>, w + ScanMargin)
  IN  IF Len(afterRunes) > w
        THEN SubSeq(afterRunes, 1, w)
        ELSE IF w > 0 THEN afterRunes \o Spaces(w - Len(afterRunes))
        ELSE <<>>

\* renderedWord (main.go 525-533): the glyphs of the truncated word, the one
\* at orpIdx highlighted
renderedWord(ws, idx) ==
  LET runes == truncateWord(ws[idx + 1])
      orpIdx == calculateORP(runes)
  IN  [k \in 1..Len(runes) |-> [rune |-> runes[k], highlight |-> (k - 1 = orpIdx)]]

\* leftPadding (main.go 550)
leftPadding(fc) == Max(0, fc - HalfWidth)

\* wordLine (main.go 554), as codepoints
wordLine(ws, idx, fc) ==
  Spaces(leftPadding(fc)) \o contextBefore(ws, idx)
    \o [k \in 1..Len(renderedWord(ws, idx)) |-> renderedWord(ws, idx)[k].rune]
    \o contextAfter(ws, idx)

\* the 0-based screen columns of the highlighted glyphs of wordLine
highlightColumns(ws, idx, fc) ==
  {leftPadding(fc) + Len(contextBefore(ws, idx)) + k - 1 :
     k \in {j \in 1..Len(renderedWord(ws, idx)) : renderedWord(ws, idx)[j].highlight}}

\* focusLine (main.go 552): the 0-based screen column of the focus marker
focusMarkerColumn(fc) == Len(Spaces(fc))


(***************************************************************************)
(* The state: the fields of `model` that Update or View read (selectedFile *)
(* is only ever written and the widget models hold no playback state),     *)
(* the timers in flight, and the message last handled together with the    *)
(* model value that Update received for it.                                *)
(***************************************************************************)
VARIABLES
  words,        \* m.words
  currentIdx,   \* m.currentIdx (0-based, as in the source)
  wpm,          \* m.wpm
  paused,       \* m.paused
  width,        \* m.width
  height,       \* m.height
  focusCol,     \* m.focusCol
  quit,         \* m.quit
  showPicker,   \* m.showPicker
  fileError,    \* m.fileError
  pending,      \* bag of the intervals of the tea.Tick timers not yet delivered
  lastMsg,      \* the msg of the last Update call
  prev,         \* the receiver m of the last Update call (Update takes m by value)
  speedCmds     \* number of Faster/Slower commands handled so far

vars ==
  <<words, currentIdx, wpm, paused, width, height, focusCol, quit, showPicker, fileError, pending, lastMsg, prev, speedCmds>>

\* the model value as Update receives it, with the timers in flight
Receiver ==
  [words |-> words, currentIdx |-> currentIdx, wpm |-> wpm, paused |-> paused,
   showPicker |-> showPicker, fileError |-> fileError, pending |-> pending]

Msg(kind, interval, path) == [kind |-> kind, interval |-> interval, path |-> path]

\* what every Update call records: the message and the receiver
Handle(kind, interval, path) ==
  /\ lastMsg' = Msg(kind, interval, path)
  /\ prev' = Receiver

\* the word sequences main can start the program with: none (no argument, the
\* picker opens) or the tokens of a source that loads; every failure exits
StartWords ==
  {<<>>} \cup {tokenize(FileSystem[p].content) :
                 p \in {q \in Paths : /\ ~FileSystem[q].err
                                      /\ ~isBinaryFile(FileSystem[q].content)
                                      /\ tokenize(FileSystem[q].content) # <<>>}}

\* initialModel(words, wpm) followed by model.Init(), which starts one timer
Init ==
  /\ words \in StartWords
  /\ currentIdx = 0
  /\ wpm \in {ClampFlag(f) : f \in WpmFlags}
  /\ paused = TRUE
  /\ width = 0
  /\ height = 0
  /\ focusCol = DefaultFocusCol
  /\ quit = FALSE
  /\ showPicker = (Len(words) = 0)
  /\ fileError = ""
  /\ pending = tickCmd(wpm)
  /\ lastMsg = Msg("init", 0, "")
  /\ prev = [words |-> words, currentIdx |-> 0, wpm |-> wpm, paused |-> TRUE,
             showPicker |-> (Len(words) = 0), fileError |-> "", pending |-> EmptyBag]
  /\ speedCmds = 0

\* the event loop delivers messages until tea.Quit ends the program
Running == ~quit

(***************************************************************************)
(* Faulty variants of the handlers below, used to show that the checked    *)
(* properties depend on the handlers.                                      *)
(***************************************************************************)
\* JumpFwd clamping to len instead of len-1
onJumpFwdOffByOne(i, n) == IF i + JumpSize >= n THEN n ELSE i + JumpSize

\* Faster without the upper clamp
onFasterNoClamp(w) == w + SpeedStep

\* Restart that resets the index but keeps playing
onRestartKeepPlaying(i, p) == [currentIdx |-> 0, paused |-> p]

\* tick that does not pause at the last word
onTickNoStop(p, i, n, w) ==
  IF ~p /\ i < n - 1
    THEN [currentIdx |-> i + 1, paused |-> p, cmd |-> SetToBag({Interval(w)})]
    ELSE [currentIdx |-> i, paused |-> p,
          cmd |-> IF ~p THEN SetToBag({Interval(w)}) ELSE EmptyBag]

\* tick that advances without re-arming the timer
onTickNoRearm(p, i, n, w) ==
  IF ~p /\ i < n - 1
    THEN [currentIdx |-> i + 1, paused |-> p, cmd |-> EmptyBag]
    ELSE [currentIdx |-> i, paused |-> (IF i >= n - 1 THEN TRUE ELSE p), cmd |-> EmptyBag]

\* tick that advances whether paused or not
onTickIgnorePause(p, i, n, w) ==
  IF i < n - 1
    THEN [currentIdx |-> i + 1, paused |-> p,
          cmd |-> IF ~p THEN SetToBag({Interval(w)}) ELSE EmptyBag]
    ELSE [currentIdx |-> i, paused |-> TRUE, cmd |-> EmptyBag]

\* PlayPause that enters Playing without arming the timer
onPlayPauseNoArm(p, w) == [paused |-> ~p, cmd |-> EmptyBag]

\* load that replaces the words but keeps the old index
onSelectKeepIdx(path, ws, i, p, ferr) ==
  LET f == FileSystem[path]
      keep(e) == [words |-> ws, currentIdx |-> i, paused |-> p, fileError |-> e]
  IN  IF f.err THEN keep("Error reading file")
      ELSE IF isBinaryFile(f.content) THEN keep("Cannot open binary file")
      ELSE LET nw == tokenize(f.content)
           IN  IF Len(nw) > 0
                 THEN [words |-> nw, currentIdx |-> i, paused |-> TRUE, fileError |-> ""]
                 ELSE keep("No words found in file")

(***************************************************************************)
(* The bodies of Update's cases, as functions of the fields they read.     *)
(* NoCmd is a nil tea.Cmd: no timer is started.                            *)
(***************************************************************************)
NoCmd == EmptyBag

\* case PlayPause (main.go 383-388)
onPlayPause(p, w) ==
  LET p2 == ~p
  IN  [paused |-> p2, cmd |-> IF ~p2 THEN tickCmd(w) ELSE NoCmd]

\* case Prev (main.go 390-394)
onPrev(i) == IF i > 0 THEN i - 1 ELSE i

\* case Next (main.go 396-400)
onNext(i, n) == IF i < n - 1 THEN i + 1 ELSE i

\* case Faster (main.go 402-407)
onFaster(w) == IF w + SpeedStep > MaxWpm THEN MaxWpm ELSE w + SpeedStep

\* case Slower (main.go 409-414)
onSlower(w) == IF w - SpeedStep < MinWpm THEN MinWpm ELSE w - SpeedStep

\* case JumpBack (main.go 416-421)
onJumpBack(i) == IF i - JumpSize < 0 THEN 0 ELSE i - JumpSize

\* case JumpFwd (main.go 423-428)
onJumpFwd(i, n) == IF i + JumpSize >= n THEN n - 1 ELSE i + JumpSize

\* case Restart (main.go 430-433)
onRestart(i, p) == [currentIdx |-> 0, paused |-> TRUE]

\* case tickMsg (main.go 436-445), then the final return m, nil
onTick(p, i, n, w) ==
  IF ~p /\ i < n - 1
    THEN [currentIdx |-> i + 1, paused |-> p, cmd |-> tickCmd(w)]
    ELSE LET p2 == IF i >= n - 1 THEN TRUE ELSE p
         IN  [currentIdx |-> i, paused |-> p2,
              cmd |-> IF ~p2 THEN tickCmd(w) ELSE NoCmd]

\* the picker returned a path (main.go 339-358): the fields the load sets
\* isBinaryFile(content) for the content of each file that can be selected
FileIsBinary == [q \in Paths |-> isBinaryFile(FileSystem[q].content)]

\* tokenize(string(content)) for the content of each file that can be selected
FileWords == [q \in Paths |-> tokenize(FileSystem[q].content)]

onSelect(path, ws, i, p, ferr) ==
  LET f == FileSystem[path]
      keep(e) == [words |-> ws, currentIdx |-> i, paused |-> p, fileError |-> e]
  IN  IF f.err THEN keep("Error reading file")
      ELSE IF FileIsBinary[path] THEN keep("Cannot open binary file")
      ELSE LET nw == FileWords[path]
           IN  IF Len(nw) > 0
                 THEN [words |-> nw, currentIdx |-> 0, paused |-> TRUE, fileError |-> ""]
                 ELSE keep("No words found in file")

(***************************************************************************)
(* Faulty variants of the actions below.                                   *)
(***************************************************************************)
\* JumpFwd that also pauses playback
KeyJumpFwdPausing ==
  /\ ~quit /\ ~showPicker
  /\ Handle("JumpFwd", 0, "")
  /\ currentIdx' = onJumpFwd(currentIdx, Len(words))
  /\ paused' = TRUE
  /\ UNCHANGED <<words, wpm, width, height, focusCol, quit, showPicker,
                 fileError, pending, speedCmds>>

\* Faster that re-times the timers in flight to the new wpm
KeyFasterRetimes ==
  /\ ~quit /\ ~showPicker
  /\ speedCmds < MaxSpeedCmds
  /\ Handle("Faster", 0, "")
  /\ wpm' = onFaster(wpm)
  /\ pending' = IF pending = EmptyBag THEN EmptyBag
                ELSE [d \in {Interval(wpm')} |-> BagCardinality(pending)]
  /\ speedCmds' = speedCmds + 1
  /\ UNCHANGED <<words, currentIdx, paused, width, height, focusCol, quit,
                 showPicker, fileError>>

\* cancelling the picker that also rewinds to the first word
PickerCancelRewinds ==
  /\ ~quit /\ showPicker
  /\ Handle("Cancel", 0, "")
  /\ showPicker' = FALSE
  /\ currentIdx' = 0
  /\ UNCHANGED <<words, wpm, paused, width, height, focusCol, quit,
                 fileError, pending, speedCmds>>

(***************************************************************************)
(* Update, not in the picker: key commands.                                *)
(***************************************************************************)
KeyQuit ==
  /\ Running /\ ~showPicker
  /\ Handle("Quit", 0, "")
  /\ quit' = TRUE
  /\ UNCHANGED <<words, currentIdx, wpm, paused, width, height, focusCol,
                 showPicker, fileError, pending, speedCmds>>

KeyOpenFile ==
  /\ Running /\ ~showPicker
  /\ Handle("OpenFile", 0, "")
  /\ showPicker' = TRUE
  /\ paused' = TRUE
  /\ UNCHANGED <<words, currentIdx, wpm, width, height, focusCol, quit,
                 fileError, pending, speedCmds>>

KeyPlayPause ==
  /\ Running /\ ~showPicker
  /\ BagCardinality(pending (+) onPlayPause(paused, wpm).cmd) <= MaxTicks
  /\ Handle("PlayPause", 0, "")
  /\ paused' = onPlayPause(paused, wpm).paused
  /\ pending' = pending (+) onPlayPause(paused, wpm).cmd
  /\ UNCHANGED <<words, currentIdx, wpm, width, height, focusCol, quit,
                 showPicker, fileError, speedCmds>>

KeyPrev ==
  /\ Running /\ ~showPicker
  /\ Handle("Prev", 0, "")
  /\ currentIdx' = onPrev(currentIdx)
  /\ UNCHANGED <<words, wpm, paused, width, height, focusCol, quit, showPicker,
                 fileError, pending, speedCmds>>

KeyNext ==
  /\ Running /\ ~showPicker
  /\ Handle("Next", 0, "")
  /\ currentIdx' = onNext(currentIdx, Len(words))
  /\ UNCHANGED <<words, wpm, paused, width, height, focusCol, quit, showPicker,
                 fileError, pending, speedCmds>>

KeyFaster ==
  /\ Running /\ ~showPicker
  /\ speedCmds < MaxSpeedCmds
  /\ Handle("Faster", 0, "")
  /\ wpm' = onFaster(wpm)
  /\ speedCmds' = speedCmds + 1
  /\ UNCHANGED <<words, currentIdx, paused, width, height, focusCol, quit,
                 showPicker, fileError, pending>>

KeySlower ==
  /\ Running /\ ~showPicker
  /\ speedCmds < MaxSpeedCmds
  /\ Handle("Slower", 0, "")
  /\ wpm' = onSlower(wpm)
  /\ speedCmds' = speedCmds + 1
  /\ UNCHANGED <<words, currentIdx, paused, width, height, focusCol, quit,
                 showPicker, fileError, pending>>

KeyJumpBack ==
  /\ Running /\ ~showPicker
  /\ Handle("JumpBack", 0, "")
  /\ currentIdx' = onJumpBack(currentIdx)
  /\ UNCHANGED <<words, wpm, paused, width, height, focusCol, quit, showPicker,
                 fileError, pending, speedCmds>>

KeyJumpFwd ==
  /\ Running /\ ~showPicker
  /\ Handle("JumpFwd", 0, "")
  /\ currentIdx' = onJumpFwd(currentIdx, Len(words))
  /\ UNCHANGED <<words, wpm, paused, width, height, focusCol, quit, showPicker,
                 fileError, pending, speedCmds>>

KeyRestart ==
  /\ Running /\ ~showPicker
  /\ Handle("Restart", 0, "")
  /\ currentIdx' = onRestart(currentIdx, paused).currentIdx
  /\ paused' = onRestart(currentIdx, paused).paused
  /\ UNCHANGED <<words, wpm, width, height, focusCol, quit, showPicker, fileError, pending, speedCmds>>

\* a key bound to no command: no case matches, return m, nil
KeyOther ==
  /\ Running /\ ~showPicker
  /\ Handle("OtherKey", 0, "")
  /\ UNCHANGED <<words, currentIdx, wpm, paused, width, height, focusCol, quit,
                 showPicker, fileError, pending, speedCmds>>

(***************************************************************************)
(* Update for a tickMsg: one timer in flight fires.  In the picker the     *)
(* message goes to the file picker, which ignores it.                      *)
(***************************************************************************)
Tick ==
  /\ Running
  /\ \E d \in BagToSet(pending) :
       LET r == onTick(paused, currentIdx, Len(words), wpm)
       IN  /\ Handle("Tick", d, "")
           /\ IF showPicker
                THEN /\ pending' = pending (-) SetToBag({d})
                     /\ UNCHANGED <<currentIdx, paused>>
                ELSE /\ currentIdx' = r.currentIdx
                     /\ paused' = r.paused
                     /\ pending' = (pending (-) SetToBag({d})) (+) r.cmd
  /\ UNCHANGED <<words, wpm, width, height, focusCol, quit, showPicker, fileError, speedCmds>>

(***************************************************************************)
(* Update for a tea.WindowSizeMsg (main.go 318-324); nothing else in       *)
(* Update acts on it, in the picker or outside.                            *)
(***************************************************************************)
WindowSizeMsg(sizes) ==
  /\ Running
  /\ \E sz \in sizes :
       /\ <<width, height>> # sz
       /\ Handle("WindowSize", 0, "")
       /\ width' = sz[1]
       /\ height' = sz[2]
       /\ focusCol' = sz[1] \div 2
  /\ UNCHANGED <<words, currentIdx, wpm, paused, quit, showPicker, fileError, pending, speedCmds>>

WindowSize == WindowSizeMsg(TermSizes)

(***************************************************************************)
(* Update in the picker (main.go 326-362).                                 *)
(***************************************************************************)
\* "esc" or "q"
PickerCancel ==
  /\ Running /\ showPicker
  /\ Handle("Cancel", 0, "")
  /\ showPicker' = FALSE
  /\ UNCHANGED <<words, currentIdx, wpm, paused, width, height, focusCol, quit,
                 fileError, pending, speedCmds>>

\* a key on which filepicker.DidSelectFile reports the path
PickerSelect ==
  /\ Running /\ showPicker
  /\ \E path \in Paths :
       LET r == onSelect(path, words, currentIdx, paused, fileError)
       IN  /\ Handle("Select", 0, path)
           /\ words' = r.words
           /\ currentIdx' = r.currentIdx
           /\ paused' = r.paused
           /\ fileError' = r.fileError
  /\ showPicker' = FALSE
  /\ UNCHANGED <<wpm, width, height, focusCol, quit, pending, speedCmds>>

\* any other key: the picker moves its cursor, the model's fields stay
PickerOther ==
  /\ Running /\ showPicker
  /\ Handle("PickerKey", 0, "")
  /\ UNCHANGED <<words, currentIdx, wpm, paused, width, height, focusCol, quit,
                 showPicker, fileError, pending, speedCmds>>

(***************************************************************************)
(* View (main.go 456-595): which screen is drawn, and for the reading      *)
(* screen the word under the focus marker.  m.words[m.currentIdx] panics   *)
(* when the index is out of range.                                         *)
(***************************************************************************)
View ==
  IF quit THEN [screen |-> "blank", text |-> <<>>]
  ELSE IF width = 0 \/ height = 0 THEN [screen |-> "loading", text |-> <<>>]
  ELSE IF showPicker THEN [screen |-> "picker", text |-> <<>>]
  ELSE IF Len(words) = 0
    THEN IF fileError # ""
           THEN [screen |-> "nocontent", text |-> <<fileError>>]
           ELSE [screen |-> "nocontent", text |-> <<"No words to display">>]
  ELSE IF currentIdx < 0 \/ currentIdx >= Len(words)
    THEN [screen |-> "panic", text |-> <<>>]
    ELSE [screen |-> "word", text |-> words[currentIdx + 1]]

Next ==
  \/ KeyQuit \/ KeyOpenFile \/ KeyPlayPause \/ KeyPrev \/ KeyNext
  \/ KeyFaster \/ KeySlower \/ KeyJumpBack \/ KeyJumpFwd \/ KeyRestart
  \/ KeyOther \/ Tick \/ WindowSize
  \/ PickerCancel \/ PickerSelect \/ PickerOther

Spec == Init /\ [][Next]_vars

(***************************************************************************)
(* Playback left alone: the state right after a PlayPause that entered     *)
(* Playing on a loaded document (at any index, with the timers that the    *)
(* earlier startup and PlayPause presses left in flight), after which no   *)
(* key is pressed and the runtime delivers every timer that is armed.      *)
(***************************************************************************)
\* k timers of the interval of w
Timers(k, w) == IF k = 0 THEN EmptyBag ELSE [d \in {Interval(w)} |-> k]

QuietInit ==
  /\ words \in StartWords \ {<<>>}
  /\ currentIdx \in 0..(Len(words) - 1)
  /\ wpm \in {ClampFlag(f) : f \in WpmFlags}
  /\ paused = onPlayPause(TRUE, wpm).paused
  /\ \E sz \in TermSizes \cup {<<0, 0>>} :
       /\ width = sz[1]
       /\ height = sz[2]
       /\ focusCol = IF sz = <<0, 0>> THEN DefaultFocusCol ELSE sz[1] \div 2
  /\ quit = FALSE
  /\ showPicker = FALSE
  /\ fileError = ""
  /\ lastMsg = Msg("PlayPause", 0, "")
  /\ \E k \in 0..(MaxTicks - 1) :
       /\ prev = [words |-> words, currentIdx |-> currentIdx, wpm |-> wpm,
                  paused |-> TRUE, showPicker |-> FALSE, fileError |-> "",
                  pending |-> Timers(k, wpm)]
       /\ pending = Timers(k, wpm) (+) onPlayPause(TRUE, wpm).cmd
  /\ speedCmds = 0

NextQuiet == Tick

SpecQuiet == QuietInit /\ [][NextQuiet]_vars /\ WF_vars(Tick)

(***************************************************************************)
(* Reading a document: the program is started on one of ViewTexts, the     *)
(* terminal reports its size, and the reader steps and jumps through the   *)
(* words.                                                                  *)
(***************************************************************************)
InitView ==
  /\ words \in {tokenize(t) : t \in ViewTexts}
  /\ currentIdx = 0
  /\ wpm \in {ClampFlag(f) : f \in {500}}
  /\ paused = TRUE
  /\ width = 0
  /\ height = 0
  /\ focusCol = DefaultFocusCol
  /\ quit = FALSE
  /\ showPicker = (Len(words) = 0)
  /\ fileError = ""
  /\ pending = tickCmd(wpm)
  /\ lastMsg = Msg("init", 0, "")
  /\ prev = [words |-> words, currentIdx |-> 0, wpm |-> wpm, paused |-> TRUE,
             showPicker |-> (Len(words) = 0), fileError |-> "", pending |-> EmptyBag]
  /\ speedCmds = 0

ViewResize == WindowSizeMsg(ViewSizes)

NextView == KeyPrev \/ KeyNext \/ KeyJumpBack \/ KeyJumpFwd \/ ViewResize

SpecView == InitView /\ [][NextView]_vars

(***************************************************************************)
(* Properties.  prev and lastMsg are the receiver and the message of the   *)
(* Update call that produced the current state.                            *)
(***************************************************************************)
Delivered == SetToBag({lastMsg.interval})

Clamp(x, lo, hi) == IF x < lo THEN lo ELSE IF x > hi THEN hi ELSE x

\* C1: whenever words are loaded, 0 <= currentIdx < len(words), after any
\* sequence of key commands, picker interactions and ticks.
C1_IndexInRange ==
  Len(words) > 0 => (0 <= currentIdx /\ currentIdx < Len(words))

\* a forward jump that had to be clamped to the last word
C1_Witness ==
  /\ lastMsg.kind = "JumpFwd"
  /\ Len(words) > 0
  /\ prev.currentIdx + 10 >= Len(words)
  /\ prev.currentIdx < currentIdx
  /\ currentIdx = Len(words) - 1

\* C2: wpm stays in [50, 1000]; Faster and Slower set it to
\* clamp(previous wpm +/- 25, 50, 1000), so they change nothing at the ends.
C2_WpmClamped ==
  /\ 50 <= wpm /\ wpm <= 1000
  /\ lastMsg.kind = "Faster" => wpm = Clamp(prev.wpm + 25, 50, 1000)
  /\ lastMsg.kind = "Slower" => wpm = Clamp(prev.wpm - 25, 50, 1000)
  /\ (lastMsg.kind = "Faster" /\ prev.wpm = 1000) => wpm = 1000
  /\ (lastMsg.kind = "Slower" /\ prev.wpm = 50) => wpm = 50

\* Faster pressed at a wpm whose increase overshoots 1000
C2_Witness ==
  /\ lastMsg.kind = "Faster"
  /\ prev.wpm > 975
  /\ wpm = 1000

\* C3: at most one tick is pending at any time.
C3_AtMostOneTick == BagCardinality(pending) <= 1

\* C4: a tick processed while Playing at the last word pauses, keeps the
\* index and starts no timer.
C4_TickAtEndPauses ==
  (/\ lastMsg.kind = "Tick"
   /\ ~prev.paused
   /\ prev.currentIdx = Len(prev.words) - 1)
  => /\ paused
     /\ currentIdx = prev.currentIdx
     /\ pending = prev.pending (-) Delivered

\* a tick that found the machine Playing at the last of several words
C4_Witness ==
  /\ lastMsg.kind = "Tick"
  /\ ~prev.paused
  /\ Len(prev.words) > 1
  /\ prev.currentIdx = Len(prev.words) - 1
  /\ paused

\* C5: a tick processed while Playing before the last word advances the
\* index by one, stays Playing and starts exactly one timer, whose interval
\* is minute / wpm for the wpm at that moment.
C5_TickAdvances ==
  (/\ lastMsg.kind = "Tick"
   /\ ~prev.paused
   /\ prev.currentIdx < Len(prev.words) - 1)
  => /\ currentIdx = prev.currentIdx + 1
     /\ ~paused
     /\ wpm = prev.wpm
     /\ pending = (prev.pending (-) Delivered) (+) SetToBag({Interval(wpm)})
     /\ BagCardinality(pending) = BagCardinality(prev.pending)

\* a tick armed at another wpm fires while Playing: the next one uses the new wpm
C5_Witness ==
  /\ lastMsg.kind = "Tick"
  /\ ~prev.paused
  /\ prev.currentIdx < Len(prev.words) - 1
  /\ currentIdx = prev.currentIdx + 1
  /\ lastMsg.interval # Interval(wpm)
  /\ BagIn(Interval(wpm), pending)

\* C6: PlayPause pressed while Paused at the last word never leaves the
\* machine Playing at the last word and never starts a timer from there.
C6_ToggleAtEnd ==
  (/\ lastMsg.kind = "PlayPause"
   /\ prev.paused
   /\ Len(prev.words) > 0
   /\ prev.currentIdx = Len(prev.words) - 1)
  => /\ ~(~paused /\ currentIdx = prev.currentIdx)
     /\ currentIdx = prev.currentIdx => pending = prev.pending

\* C7: a tick delivered while Paused changes neither index, wpm nor paused
\* and starts no timer.
C7_TickWhilePaused ==
  (lastMsg.kind = "Tick" /\ prev.paused)
  => /\ currentIdx = prev.currentIdx
     /\ wpm = prev.wpm
     /\ paused
     /\ pending = prev.pending (-) Delivered

\* a tick delivered on the reading screen, Paused, with words still ahead
C7_Witness ==
  /\ lastMsg.kind = "Tick"
  /\ prev.paused
  /\ ~prev.showPicker
  /\ prev.currentIdx < Len(prev.words) - 1
  /\ currentIdx = prev.currentIdx

\* C8: restart yields currentIdx = 0 and paused, and keeps wpm and the words.
C8_Restart ==
  lastMsg.kind = "Restart"
  => /\ currentIdx = 0
     /\ paused
     /\ wpm = prev.wpm
     /\ words = prev.words

\* restart pressed while Playing past the first word
C8_Witness ==
  /\ lastMsg.kind = "Restart"
  /\ ~prev.paused
  /\ prev.currentIdx > 0
  /\ currentIdx = 0
  /\ paused

\* the file the picker returned
Selected == FileSystem[lastMsg.path]

\* C9 as stated: selecting a file whose tokenization is non-empty replaces
\* the words and leaves the machine Paused at index 0.
C9_SelectLoads ==
  (lastMsg.kind = "Select" /\ tokenize(Selected.content) # <<>>)
  => /\ words = tokenize(Selected.content)
     /\ paused
     /\ currentIdx = 0

\* C9 amended: selecting a readable file with no NUL byte in its first 8192
\* bytes and a non-empty tokenization replaces the words and leaves the
\* machine Paused at index 0.
C9_SelectLoadsText ==
  (/\ lastMsg.kind = "Select"
   /\ ~Selected.err
   /\ ~isBinaryFile(Selected.content)
   /\ tokenize(Selected.content) # <<>>)
  => /\ words = tokenize(Selected.content)
     /\ paused
     /\ currentIdx = 0

\* a text file selected while another document was open past its first word
C9_Witness ==
  /\ lastMsg.kind = "Select"
  /\ ~Selected.err
  /\ ~isBinaryFile(Selected.content)
  /\ tokenize(Selected.content) # <<>>
  /\ prev.words # <<>>
  /\ prev.words # words
  /\ prev.currentIdx > 0
  /\ currentIdx = 0

\* C10: loading a document whose tokenization is empty leaves no words
\* loaded, and the renderer (once the terminal size is known) shows the
\* no-content screen rather than a word.
C10_EmptyLoadIdle ==
  (/\ lastMsg.kind = "Select"
   /\ ~Selected.err
   /\ ~isBinaryFile(Selected.content)
   /\ tokenize(Selected.content) = <<>>)
  => /\ Len(words) = 0
     /\ (width # 0 /\ height # 0) => View.screen = "nocontent"

\* C14: prev, next, jump -10 and jump +10 change only currentIdx: paused,
\* wpm, the words and the pending ticks stay as they were.
C14_StepFrame ==
  lastMsg.kind \in {"Prev", "Next", "JumpBack", "JumpFwd"}
  => /\ paused = prev.paused
     /\ wpm = prev.wpm
     /\ words = prev.words
     /\ pending = prev.pending
     /\ showPicker = prev.showPicker

\* a forward jump that moved the index while Playing with a tick in flight
C14_Witness ==
  /\ lastMsg.kind = "JumpFwd"
  /\ ~prev.paused
  /\ currentIdx # prev.currentIdx
  /\ prev.pending # EmptyBag
  /\ ~paused

\* C15: Faster/Slower leave the pending ticks as they are (none cancelled,
\* none re-timed); whatever tick a step adds has the interval of the wpm
\* current at that step.
C15_NoPreemption ==
  /\ lastMsg.kind \in {"Faster", "Slower"} => pending = prev.pending
  /\ lastMsg.kind # "init" =>
       \A d \in BagToSet(pending) :
          CopiesIn(d, pending) > CopiesIn(d, prev.pending) => d = Interval(wpm)

\* the wpm changed while a tick armed at the old wpm is still in flight
C15_Witness ==
  /\ lastMsg.kind \in {"Faster", "Slower"}
  /\ wpm # prev.wpm
  /\ BagIn(Interval(prev.wpm), pending)
  /\ ~BagIn(Interval(wpm), pending)
  /\ ~paused

\* C17: whenever the machine is Playing at least one tick is pending.
C17_NeverStalls == ~paused => pending # EmptyBag

\* Playing was entered with no tick in flight, and one is pending now
C17_Witness ==
  /\ lastMsg.kind = "PlayPause"
  /\ prev.paused
  /\ prev.pending = EmptyBag
  /\ ~paused
  /\ pending # EmptyBag

\* a Select whose file does not load: read error, binary, or no words
SelectFails ==
  /\ lastMsg.kind = "Select"
  /\ \/ Selected.err
     \/ isBinaryFile(Selected.content)
     \/ tokenize(Selected.content) = <<>>

\* C18: while the picker is open the machine is Paused and every message
\* (tick, key, resize) leaves words, currentIdx and wpm unchanged; so do
\* cancelling and a selection that fails to load, hence the values are
\* those from before the picker was opened.
C18_PickerFrame ==
  /\ showPicker => paused
  /\ lastMsg.kind = "OpenFile" => (showPicker /\ paused)
  /\ (/\ lastMsg.kind # "init"
      /\ prev.showPicker
      /\ lastMsg.kind # "Select" \/ SelectFails)
     => /\ words = prev.words
        /\ currentIdx = prev.currentIdx
        /\ wpm = prev.wpm

\* a selection that failed on a document opened past its first word
C18_Witness ==
  /\ SelectFails
  /\ prev.words # <<>>
  /\ prev.currentIdx > 0
  /\ words = prev.words
  /\ currentIdx = prev.currentIdx
  /\ ~showPicker

\* C19: currentIdx is never negative.
C19_IdxNonNegative == currentIdx >= 0

\* C16: left alone (ticks delivered fairly, no key pressed), a machine
\* Playing on a non-empty sequence becomes Paused at the last word, and
\* once it has, no tick is pending.
C16_DoneThenNoTick ==
  (paused /\ currentIdx = Len(words) - 1) => pending = EmptyBag

\* what does hold when left alone: playback ends Paused at the last word
\* and the timers in flight drain
EventuallyDrained ==
  <>[](paused /\ currentIdx = Len(words) - 1 /\ pending = EmptyBag)

\* the word under the focus marker, as loaded
CurrentWord == words[currentIdx + 1]

\* C11: for a fixed focusColumn the word line has the same codepoint width
\* for every current word, whatever its length and index.
C11_ConstantWidth ==
  View.screen = "word"
  => \A j \in 0..(Len(words) - 1) :
        Len(wordLine(words, j, focusCol)) = Len(wordLine(words, currentIdx, focusCol))

\* C12: the highlighted glyph of the word line is at the screen column of
\* the focus marker, for every word length and terminal width.
C12_OrpAtFocus ==
  View.screen = "word"
  => highlightColumns(words, currentIdx, focusCol) = {focusMarkerColumn(focusCol)}

\* the ORP table of the specification, on a codepoint count
OrpTable(l) == IF l <= 1 THEN 0 ELSE IF l <= 5 THEN 1 ELSE IF l <= 9 THEN 2
               ELSE IF l <= 13 THEN 3 ELSE 4

\* C13: the ORP offset computed on the truncated form follows the table,
\* is non-decreasing in the word length, and is less than the number of
\* displayed codepoints, so exactly one displayed glyph is highlighted.
C13_OrpWithinWord ==
  View.screen = "word"
  => LET shown == truncateWord(CurrentWord)
         orp == calculateORP(shown)
     IN  /\ orp = OrpTable(Len(CurrentWord))
         /\ orp < Len(shown)
         /\ \A j \in 1..Len(words) :
               Len(words[j]) <= Len(CurrentWord)
               => calculateORP(truncateWord(words[j])) <= orp
         /\ Cardinality({k \in 1..Len(shown) :
                           renderedWord(words, currentIdx)[k].highlight}) = 1

\* a word over the limit is shown truncated, with its fifth glyph highlighted
C13_Witness ==
  /\ View.screen = "word"
  /\ Len(CurrentWord) > 32
  /\ truncateWord(CurrentWord) # CurrentWord
  /\ renderedWord(words, currentIdx)[5].highlight

RECURSIVE AllAfter(_, _)
\* every word after the 0-based index idx, each preceded by one space
AllAfter(ws, idx) ==
  IF idx + 1 >= Len(ws) THEN <<>>
  ELSE <<32>> \o ws[idx + 2] \o AllAfter(ws, idx + 1)

\* the first n codepoints of s, right-padded with spaces to exactly n
TakePadded(s, n) ==
  IF Len(s) >= n THEN SubSeq(s, 1, n) ELSE s \o [k \in 1..(n - Len(s)) |-> 32]

\* C20: the right context is the first N codepoints of all following words
\* (each preceded by a space), right-padded to N, N the right budget.
C20_ScanEquivalent ==
  View.screen = "word"
  => contextAfter(words, currentIdx)
       = TakePadded(AllAfter(words, currentIdx), afterSectionWidth(words, currentIdx))

====
